---- MODULE Spec2Model ----
(***************************************************************************)
(* A model of the Game of Life engine: the Grid container (grid.cpp), the  *)
(* Zoo patterns and codecs (zoo.cpp) and the World stepper (world.h).      *)
(*                                                                         *)
(* A Grid is the record [width, height, cells]; cells is the row-major     *)
(* storage, cells[i + 1] being the C++ element cells[i].                   *)
(***************************************************************************)
EXTENDS Integers, Sequences, FiniteSets, TLC

\* ------------------------------------------------------------------ bounds
\* Receiver grids of the Grid specification are at most MaxW x MaxH.
\* with at most MaxCells cells.
MaxW == 3
MaxH == 2
MaxCells == 6
\* The grid merged into the receiver is at most MaxOW x MaxOH with at most
\* MaxOCells cells.
MaxOW == 2
MaxOH == 1
MaxOCells == 2
\* rotate is called with rotations in -MaxRot .. MaxRot.
MaxRot == 5
\* Negative dimensions handed to the constructors and to resize are at least
\* -MaxNeg.
MaxNeg == 2
\* The machine has memory for arrays of at most MaxAlloc cells.
MaxAlloc == 64
\* Grids handed to the Zoo codecs are at most ZooW x ZooH with at most
\* ZooCells cells.
ZooW == 9
ZooH == 4
ZooCells == 9
\* Text files handed to load_ascii declare at most FileW x FileH and hold at
\* most FileLines data lines, each of at most one character more than the
\* declared width.
FileW == 2
FileH == 2
FileLines == 3
\* Worlds are at most WorldW x WorldH with at most WorldCells cells, and
\* advance is called with at most MaxSteps steps.
WorldW == 4
WorldH == 3
WorldCells == 9
MaxSteps == 2

\* -------------------------------------------------------------------- Cell
\* enum Cell : char { DEAD = ' ', ALIVE = '#' }
DEAD == " "
ALIVE == "#"
Cell == {DEAD, ALIVE}

\* ------------------------------------------------------------ Grid (pure)
\* Grid::Grid(int width, int height): width * height cells, all DEAD.
Grid(width, height) ==
    [width |-> width, height |-> height,
     cells |-> [i \in 1..(width * height) |-> DEAD]]

get_width(g) == g.width

get_height(g) == g.height

get_total_cells(g) == g.width * g.height

\* The loops of get_alive_cells / get_dead_cells: scan cells[0 .. w*h).
RECURSIVE count_cells(_, _, _)
count_cells(g, value, i) ==
    IF i >= g.width * g.height THEN 0
    ELSE (IF g.cells[i + 1] = value THEN 1 ELSE 0) + count_cells(g, value, i + 1)

get_alive_cells(g) == count_cells(g, ALIVE, 0)

\* A dead count whose scan starts one cell late.
get_dead_cells_late(g) == count_cells(g, DEAD, 1)

get_dead_cells(g) == count_cells(g, DEAD, 0)

get_index(g, x, y) == x + g.width * y

valid_coordinate(g, x, y) == ~(x < 0 \/ y < 0 \/ x >= g.width \/ y >= g.height)

\* Grid::operator()(x, y): throws std::exception on an invalid coordinate,
\* otherwise yields a reference to cells[get_index(x, y)].
index_throws(g, x, y) == ~valid_coordinate(g, x, y)

index_read(g, x, y) == g.cells[get_index(g, x, y) + 1]

index_write(g, x, y, value) ==
    [g EXCEPT !.cells[get_index(g, x, y) + 1] = value]

\* Grid::get: try { return operator()(x, y); } catch (...) { } return DEAD;
\* the exception of operator() is caught and DEAD is returned.
get(g, x, y) == IF index_throws(g, x, y) THEN DEAD ELSE index_read(g, x, y)

\* A set that writes to a copy of the cell instead of the reference.
set_copy(g, x, y, value) == g

\* Grid::set: try { operator()(x, y) = value; } catch (...) { }
\* the exception of operator() is caught and the call returns normally.
set(g, x, y, value) ==
    IF index_throws(g, x, y) THEN g ELSE index_write(g, x, y, value)

\* Whether get / set let an exception escape to the caller: never, the
\* catch block of each handles every std::exception.
get_throws(g, x, y) == FALSE

set_throws(g, x, y) == FALSE

\* A resize that forgets to store the new height.
resize_keeps_height(g, new_width, new_height) ==
    [width |-> new_width, height |-> g.height,
     cells |-> [i \in 1..(new_width * g.height) |-> DEAD]]

\* Grid::resize(new_width, new_height): every cell of the new storage is the
\* old cell where (x, y) lies in the old grid, DEAD elsewhere.
resize(g, new_width, new_height) ==
    [width |-> new_width, height |-> new_height,
     cells |-> [i \in 1..(new_width * new_height) |->
                  LET x == (i - 1) % new_width
                      y == (i - 1) \div new_width
                  IN  IF x < g.width /\ y < g.height THEN get(g, x, y) ELSE DEAD]]

\* The range of int.
INT_MAX == 2147483647

INT_MIN == -INT_MAX - 1

\* a - b on int leaves the range of int: undefined behaviour.
sub_overflows(a, b) ==
    (b > 0 /\ a < INT_MIN + b) \/ (b < 0 /\ a > INT_MAX + b)

\* a - b on int as the two's complement subtraction computes it: the
\* difference, taken modulo 2^32 into the range of int.
sub_wrapped(a, b) ==
    IF b > 0 /\ a < INT_MIN + b THEN ((a - INT_MIN) + (INT_MAX - b)) + 1
    ELSE IF b < 0 /\ a > INT_MAX + b THEN ((a - INT_MAX) + (INT_MIN - b)) - 1
    ELSE a - b

\* new Cell[width * height]: std::bad_alloc when the size is negative or more
\* cells than the machine has memory for.
new_throws(width, height) ==
    IF width = 0 \/ height = 0 THEN FALSE
    ELSE IF (width < 0) # (height < 0) THEN TRUE
    ELSE IF width > 0 THEN width > MaxAlloc \div height
    ELSE -width > MaxAlloc \div (-height)

\* Grid::crop: the first four tests of the window test.
crop_outside(g, x0, y0, x1, y1) ==
    x0 < 0 \/ x1 > g.width \/ y0 < 0 \/ y1 > g.height

\* Grid::crop: a subtraction of the window test overflows.
crop_overflows(g, x0, y0, x1, y1) ==
    /\ ~crop_outside(g, x0, y0, x1, y1)
    /\ \/ sub_overflows(x1, x0)
       \/ (x1 - x0 >= 0 /\ sub_overflows(y1, y0))

\* Grid::crop: the window test that throws std::exception, with the
\* subtractions as the machine computes them.
crop_throws(g, x0, y0, x1, y1) ==
    \/ crop_outside(g, x0, y0, x1, y1)
    \/ sub_wrapped(x1, x0) < 0
    \/ sub_wrapped(y1, y0) < 0

\* The outcomes of the window test: where a subtraction overflows the
\* behaviour is undefined, and the test comes out as the wrapped subtraction
\* gives it or as a compiler that takes x1 - x0 < 0 for x1 < x0 gives it.
crop_throws_outcomes(g, x0, y0, x1, y1) ==
    IF crop_overflows(g, x0, y0, x1, y1)
    THEN {crop_throws(g, x0, y0, x1, y1), x1 < x0 \/ y1 < y0}
    ELSE {crop_throws(g, x0, y0, x1, y1)}

\* The two loops of crop, k-th iteration: y = y0 + k / (x1 - x0),
\* x = x0 + k % (x1 - x0); newGrid.set(x - x0, y - y0, get(x, y)).
RECURSIVE crop_loop(_, _, _, _, _, _, _)
crop_loop(g, newGrid, x0, y0, x1, y1, k) ==
    IF k >= (x1 - x0) * (y1 - y0) THEN newGrid
    ELSE LET x == x0 + (k % (x1 - x0))
             y == y0 + (k \div (x1 - x0))
         IN  crop_loop(g, set(newGrid, x - x0, y - y0, get(g, x, y)),
                       x0, y0, x1, y1, k + 1)

\* Grid::crop past the window test: the new grid, then the loops, which run
\* no iteration when x1 <= x0 or y1 <= y0.
crop(g, x0, y0, x1, y1) ==
    LET newGrid == Grid(sub_wrapped(x1, x0), sub_wrapped(y1, y0))
    IN  IF x1 <= x0 \/ y1 <= y0 THEN newGrid
        ELSE crop_loop(g, newGrid, x0, y0, x1, y1, 0)

\* A fit test that only looks at the corner (x0, y0).
merge_throws_origin(g, other, x0, y0) == ~valid_coordinate(g, x0, y0)

\* Grid::merge: the fit test that throws std::exception: both (x0, y0) and
\* (x0 + other.W, y0 + other.H) must be valid coordinates of the receiver.
merge_throws(g, other, x0, y0) ==
    \/ ~valid_coordinate(g, x0, y0)
    \/ ~valid_coordinate(g, x0 + get_width(other), y0 + get_height(other))

\* A merge cell that writes other's cell whatever alive_only says.
merge_cell_overwrite(g, other, x, y, xx, yy, alive_only) ==
    set(g, xx, yy, get(other, x, y))

\* A merge cell that never writes a DEAD cell of other.
merge_cell_alive(g, other, x, y, xx, yy, alive_only) ==
    IF get(other, x, y) = ALIVE THEN set(g, xx, yy, get(other, x, y))
    ELSE set(g, xx, yy, get(g, xx, yy))

\* The body of merge's loops: the nested conditional expression.
merge_cell(g, other, x, y, xx, yy, alive_only) ==
    IF ~alive_only THEN set(g, xx, yy, get(other, x, y))
    ELSE IF get(other, x, y) = ALIVE THEN set(g, xx, yy, get(other, x, y))
    ELSE set(g, xx, yy, get(g, xx, yy))

\* The two loops of merge, k-th iteration: y = k / other.W, x = k % other.W,
\* yy = y0 + y, xx = x0 + x.
RECURSIVE merge_loop(_, _, _, _, _, _)
merge_loop(g, other, x0, y0, alive_only, k) ==
    IF k >= get_width(other) * get_height(other) THEN g
    ELSE LET x == k % get_width(other)
             y == k \div get_width(other)
         IN  merge_loop(merge_cell(g, other, x, y, x0 + x, y0 + y, alive_only),
                        other, x0, y0, alive_only, k + 1)

\* Grid::merge past the fit test: the early return when alive_only and other
\* has no ALIVE cell, then the loops.
merge(g, other, x0, y0, alive_only) ==
    IF alive_only /\ get_alive_cells(other) <= 0 THEN g
    ELSE merge_loop(g, other, x0, y0, alive_only, 0)

\* C++ integer division and remainder truncate toward zero.
CAbs(a) == IF a < 0 THEN -a ELSE a

CRem(a, b) == IF a >= 0 THEN a % b ELSE -((-a) % b)

\* A normalisation that turns a negative rotation the wrong way.
rotationTimes_abs(rotation) == CAbs(rotation) % 4

\* int rotationTimes = abs(rotation % 4 + 4) % 4;
rotationTimes(rotation) == CAbs(CRem(rotation, 4) + 4) % 4

\* The switch of rotate: the source coordinate read for destination (x, y).
rotate_source(g, r, x, y) ==
    CASE r = 0 -> <<x, y>>
      [] r = 1 -> <<y, get_height(g) - x - 1>>
      [] r = 2 -> <<get_width(g) - x - 1, get_height(g) - y - 1>>
      [] r = 3 -> <<get_width(g) - y - 1, x>>
      [] OTHER -> <<x, y>>

\* The two loops of rotate over the new grid, k-th iteration.
RECURSIVE rotate_loop(_, _, _, _)
rotate_loop(g, newGrid, r, k) ==
    IF k >= get_width(newGrid) * get_height(newGrid) THEN newGrid
    ELSE LET x == k % get_width(newGrid)
             y == k \div get_width(newGrid)
             s == rotate_source(g, r, x, y)
         IN  rotate_loop(g, set(newGrid, x, y, get(g, s[1], s[2])), r, k + 1)

\* Grid::rotate(rotation).
rotate(g, rotation) ==
    LET r == rotationTimes(rotation)
        newGrid == Grid(IF r % 2 = 0 THEN get_width(g) ELSE get_height(g),
                        IF r % 2 = 0 THEN get_height(g) ELSE get_width(g))
    IN  rotate_loop(g, newGrid, r, 0)

\* ------------------------------------------------------------ Zoo patterns
RECURSIVE set_all(_, _, _)
set_all(g, coords, i) ==
    IF i > Len(coords) THEN g
    ELSE set_all(set(g, coords[i][1], coords[i][2], ALIVE), coords, i + 1)

glider == set_all(Grid(3, 3), <<<<1, 0>>, <<2, 1>>, <<0, 2>>, <<1, 2>>, <<2, 2>>>>, 1)

r_pentomino == set_all(Grid(3, 3), <<<<1, 0>>, <<2, 0>>, <<0, 1>>, <<1, 1>>, <<1, 2>>>>, 1)

light_weight_spaceship ==
    set_all(Grid(5, 4), <<<<1, 0>>, <<4, 0>>, <<0, 1>>, <<0, 2>>, <<4, 2>>,
                          <<0, 3>>, <<1, 3>>, <<2, 3>>, <<3, 3>>>>, 1)

\* ------------------------------------------------------------------- state
VARIABLES
    grid,    \* the Grid object the operations are called on
    op,      \* the operation called last
    args,    \* its integer arguments
    flag,    \* its boolean argument (alive_only, toroidal)
    other,   \* its Grid argument (merge, World(grid))
    pre,     \* the receiver as it was when the operation was called
    ret,     \* the Grid it returned (crop, rotate, Zoo functions)
    rcell,   \* the Cell it returned (get, operator())
    threw,   \* whether it raised an exception to its caller
    bgol,    \* the binary file at the path the Zoo codecs are called with
    gol,     \* the ascii file at the path the Zoo codecs are called with
    nodir,   \* the file at a path whose directory does not exist
    current_state,  \* World::_current_state
    next_state      \* World::_next_state

callVars == <<op, args, flag, other, pre, ret, rcell, threw>>

fileVars == <<bgol, gol, nodir>>

worldVars == <<current_state, next_state>>

vars == <<grid, op, args, flag, other, pre, ret, rcell, threw, bgol, gol, nodir,
          current_state, next_state>>

\* A path with no file, and a file holding the sequence data.
NoFile == [exists |-> FALSE, data |-> <<>>]

File(data) == [exists |-> TRUE, data |-> data]

\* All grids of a shape, and of the shapes up to maxw x maxh.
GridsOfShape(w, h) ==
    {[width |-> w, height |-> h, cells |-> c] : c \in [1..(w * h) -> Cell]}

Shapes(maxw, maxh, maxcells) ==
    {s \in (0..maxw) \X (0..maxh) : s[1] * s[2] <= maxcells}

Grids(maxw, maxh, maxcells) ==
    UNION {GridsOfShape(s[1], s[2]) : s \in Shapes(maxw, maxh, maxcells)}

NoGrid == Grid(0, 0)

\* No call is pending: the caller is between two calls.
Idle == "none"

\* The record of a call: every operation sets all of it.
Record(name, a, f, o, r, c, t) ==
    /\ op' = name
    /\ args' = a
    /\ flag' = f
    /\ other' = o
    /\ pre' = grid
    /\ ret' = r
    /\ rcell' = c
    /\ threw' = t

\* A call of a Grid member function or of a Zoo pattern: no file is touched.
Call(name, a, f, o, r, c, t) ==
    /\ Record(name, a, f, o, r, c, t)
    /\ UNCHANGED <<fileVars, worldVars>>

\* ------------------------------------------------------- Grid operations
\* The square sizes: n x n within the bounds.
Squares == {n \in 0..MaxW : <<n, n>> \in Shapes(MaxW, MaxH, MaxCells)}

\* The coordinates the operations are called with: every cell of the largest
\* grid and one step past each of its edges.
XS == -1..MaxW

YS == -1..MaxH

\* The far corners crop is called with: one step past each edge of the
\* largest grid, and the least int.
X1S == (-1..(MaxW + 1)) \cup {INT_MIN}

Y1S == (-1..(MaxH + 1)) \cup {INT_MIN}

\* Grid grid;
GridDefault ==
    /\ op = Idle
    /\ grid' = Grid(0, 0)
    /\ Call("Grid()", <<>>, FALSE, NoGrid, NoGrid, DEAD, FALSE)

\* Grid grid(square_size);
GridSquare ==
    /\ op = Idle
    /\ \E square_size \in Squares :
          /\ grid' = Grid(square_size, square_size)
          /\ Call("Grid(n)", <<square_size>>, FALSE, NoGrid, NoGrid, DEAD, FALSE)

\* Grid grid(width, height);
GridWH ==
    /\ op = Idle
    /\ \E s \in Shapes(MaxW, MaxH, MaxCells) :
        LET width == s[1]
            height == s[2]
        IN
          /\ grid' = Grid(width, height)
          /\ Call("Grid(w,h)", <<width, height>>, FALSE, NoGrid, NoGrid, DEAD, FALSE)

\* grid.get(x, y)
Get ==
    /\ op = Idle
    /\ \E x \in XS, y \in YS :
          /\ grid' = grid
          /\ Call("get", <<x, y>>, FALSE, NoGrid, NoGrid, get(grid, x, y),
                  get_throws(grid, x, y))

\* grid.set(x, y, value)
Set ==
    /\ op = Idle
    /\ \E x \in XS, y \in YS, value \in Cell :
          /\ grid' = set(grid, x, y, value)
          /\ Call("set", <<x, y>>, value = ALIVE, NoGrid, NoGrid, value,
                  set_throws(grid, x, y))

\* Cell cell = grid(x, y);
IndexRead ==
    /\ op = Idle
    /\ \E x \in XS, y \in YS :
          /\ grid' = grid
          /\ IF index_throws(grid, x, y)
             THEN Call("read()", <<x, y>>, FALSE, NoGrid, NoGrid, DEAD, TRUE)
             ELSE Call("read()", <<x, y>>, FALSE, NoGrid, NoGrid,
                       index_read(grid, x, y), FALSE)

\* grid(x, y) = value;
IndexWrite ==
    /\ op = Idle
    /\ \E x \in XS, y \in YS, value \in Cell :
          IF index_throws(grid, x, y)
          THEN /\ grid' = grid
               /\ Call("write()", <<x, y>>, value = ALIVE, NoGrid, NoGrid, value, TRUE)
          ELSE /\ grid' = index_write(grid, x, y, value)
               /\ Call("write()", <<x, y>>, value = ALIVE, NoGrid, NoGrid, value, FALSE)

\* grid.resize(square_size)
ResizeSquare ==
    /\ op = Idle
    /\ \E square_size \in Squares :
          /\ grid' = resize(grid, square_size, square_size)
          /\ Call("resize(n)", <<square_size>>, FALSE, NoGrid, NoGrid, DEAD, FALSE)

\* grid.resize(new_width, new_height)
Resize ==
    /\ op = Idle
    /\ \E s \in Shapes(MaxW, MaxH, MaxCells) :
        LET new_width == s[1]
            new_height == s[2]
        IN
          /\ grid' = resize(grid, new_width, new_height)
          /\ Call("resize", <<new_width, new_height>>, FALSE, NoGrid, NoGrid, DEAD, FALSE)

\* grid.crop(x0, y0, x1, y1)
Crop ==
    /\ op = Idle
    /\ \E x0 \in XS, x1 \in X1S, y0 \in YS, y1 \in Y1S :
       \E t \in crop_throws_outcomes(grid, x0, y0, x1, y1) :
          /\ grid' = grid
          /\ IF t \/ new_throws(sub_wrapped(x1, x0), sub_wrapped(y1, y0))
             THEN Call("crop", <<x0, y0, x1, y1>>, FALSE, NoGrid, NoGrid, DEAD, TRUE)
             ELSE Call("crop", <<x0, y0, x1, y1>>, FALSE, NoGrid,
                       crop(grid, x0, y0, x1, y1), DEAD, FALSE)

\* grid.merge(o, x0, y0, alive_only)
Merge ==
    /\ op = Idle
    /\ \E o \in Grids(MaxOW, MaxOH, MaxOCells), x0 \in XS, y0 \in YS, alive_only \in BOOLEAN :
          IF merge_throws(grid, o, x0, y0)
          THEN /\ grid' = grid
               /\ Call("merge", <<x0, y0>>, alive_only, o, NoGrid, DEAD, TRUE)
          ELSE /\ grid' = merge(grid, o, x0, y0, alive_only)
               /\ Call("merge", <<x0, y0>>, alive_only, o, NoGrid, DEAD, FALSE)

\* grid.rotate(rotation)
Rotate ==
    /\ op = Idle
    /\ \E rotation \in (-MaxRot)..MaxRot :
          /\ grid' = grid
          /\ Call("rotate", <<rotation>>, FALSE, NoGrid, rotate(grid, rotation),
                  DEAD, FALSE)

\* Zoo::glider()
Glider ==
    /\ op = Idle
    /\ grid' = grid
    /\ Call("glider", <<>>, FALSE, NoGrid, glider, DEAD, FALSE)

\* Zoo::r_pentomino()
RPentomino ==
    /\ op = Idle
    /\ grid' = grid
    /\ Call("r_pentomino", <<>>, FALSE, NoGrid, r_pentomino, DEAD, FALSE)

\* Zoo::light_weight_spaceship()
LightWeightSpaceship ==
    /\ op = Idle
    /\ grid' = grid
    /\ Call("light_weight_spaceship", <<>>, FALSE, NoGrid, light_weight_spaceship,
            DEAD, FALSE)

\* The caller drops what the call returned or threw and goes on to its next
\* call; the objects and the files stay as the call left them.
Discard ==
    /\ op # Idle
    /\ UNCHANGED <<grid, fileVars, worldVars>>
    /\ op' = Idle
    /\ args' = <<>>
    /\ flag' = FALSE
    /\ other' = NoGrid
    /\ pre' = NoGrid
    /\ ret' = NoGrid
    /\ rcell' = DEAD
    /\ threw' = FALSE

Init ==
    /\ grid = Grid(0, 0)
    /\ op = Idle
    /\ args = <<>>
    /\ flag = FALSE
    /\ other = NoGrid
    /\ pre = NoGrid
    /\ ret = NoGrid
    /\ rcell = DEAD
    /\ threw = FALSE
    /\ bgol = NoFile
    /\ gol = NoFile
    /\ nodir = NoFile
    /\ current_state = NoGrid
    /\ next_state = NoGrid

Next ==
    \/ GridDefault
    \/ GridSquare
    \/ GridWH
    \/ Get
    \/ Set
    \/ IndexRead
    \/ IndexWrite
    \/ ResizeSquare
    \/ Resize
    \/ Crop
    \/ Merge
    \/ Rotate
    \/ Glider
    \/ RPentomino
    \/ LightWeightSpaceship
    \/ Discard

Spec == Init /\ [][Next]_vars

\* ------------------------------------------ Grid: dimensions of any sign
\* The dimensions the constructors and resize are called with: those of the
\* Grid specification, and the negative and zero ones.
Dims ==
    {s \in ((-MaxNeg)..MaxW) \X ((-MaxNeg)..MaxH) :
        s[1] <= 0 \/ s[2] <= 0 \/ s \in Shapes(MaxW, MaxH, MaxCells)}

SquareDims == {n \in (-MaxNeg)..MaxW : <<n, n>> \in Dims}

\* The grids Grid::resize(new_width, new_height) can leave once its
\* allocation succeeded. With a negative dimension neither loop runs an
\* iteration and the new storage is never written: its cells are whatever
\* the memory holds.
resize_outcomes(g, new_width, new_height) ==
    IF new_width >= 0 /\ new_height >= 0 THEN {resize(g, new_width, new_height)}
    ELSE {[width |-> new_width, height |-> new_height, cells |-> c] :
             c \in [1..(new_width * new_height) -> Cell]}

\* Grid grid(width, height); with any dimensions: when new throws no object
\* is constructed and the grid there was stays.
GridWHInt ==
    /\ op = Idle
    /\ \E s \in Dims :
        LET width == s[1]
            height == s[2]
        IN
          IF new_throws(width, height)
          THEN /\ grid' = grid
               /\ Call("Grid(w,h)", <<width, height>>, FALSE, NoGrid, NoGrid, DEAD, TRUE)
          ELSE /\ grid' = Grid(width, height)
               /\ Call("Grid(w,h)", <<width, height>>, FALSE, NoGrid, NoGrid, DEAD, FALSE)

\* Grid grid(square_size); with any size.
GridSquareInt ==
    /\ op = Idle
    /\ \E square_size \in SquareDims :
          IF new_throws(square_size, square_size)
          THEN /\ grid' = grid
               /\ Call("Grid(n)", <<square_size>>, FALSE, NoGrid, NoGrid, DEAD, TRUE)
          ELSE /\ grid' = Grid(square_size, square_size)
               /\ Call("Grid(n)", <<square_size>>, FALSE, NoGrid, NoGrid, DEAD, FALSE)

\* grid.resize(new_width, new_height) with any dimensions: new throws before
\* the grid is touched.
ResizeInt ==
    /\ op = Idle
    /\ \E s \in Dims :
        LET new_width == s[1]
            new_height == s[2]
        IN
          IF new_throws(new_width, new_height)
          THEN /\ grid' = grid
               /\ Call("resize", <<new_width, new_height>>, FALSE, NoGrid, NoGrid, DEAD, TRUE)
          ELSE /\ grid' \in resize_outcomes(grid, new_width, new_height)
               /\ Call("resize", <<new_width, new_height>>, FALSE, NoGrid, NoGrid, DEAD, FALSE)

\* grid.resize(square_size) with any size.
ResizeSquareInt ==
    /\ op = Idle
    /\ \E square_size \in SquareDims :
          IF new_throws(square_size, square_size)
          THEN /\ grid' = grid
               /\ Call("resize(n)", <<square_size>>, FALSE, NoGrid, NoGrid, DEAD, TRUE)
          ELSE /\ grid' \in resize_outcomes(grid, square_size, square_size)
               /\ Call("resize(n)", <<square_size>>, FALSE, NoGrid, NoGrid, DEAD, FALSE)

NextDims ==
    \/ GridWHInt
    \/ GridSquareInt
    \/ ResizeInt
    \/ ResizeSquareInt
    \/ Set
    \/ Discard

SpecDims == Init /\ [][NextDims]_vars

\* ----------------------------------------------------------- Zoo: binary
\* saveFile.write(reinterpret_cast<const char *>(&width), 4): the four bytes of
\* a 32-bit two's complement int, least significant first (\div and % round
\* down, which is the arithmetic shift of the two's complement form).
Int32Bytes(n) ==
    <<n % 256, (n \div 256) % 256, (n \div 65536) % 256, (n \div 16777216) % 256>>

\* file.read(reinterpret_cast<char *>(&width), sizeof(width)) into an int that
\* holds 0: the bytes the file still has from pos on are stored, least
\* significant first, the others stay 0; the top byte carries the sign.
ReadInt32(bytes, pos) ==
    LET b(k) == IF pos + k <= Len(bytes) THEN bytes[pos + k] ELSE 0
        top == IF b(3) >= 128 THEN b(3) - 256 ELSE b(3)
    IN  b(0) + 256 * b(1) + 65536 * b(2) + 16777216 * top

\* An or that always sets the lowest bit: line |= 1.
BitOr_low(line, mask) == IF line % 2 = 1 THEN line ELSE line + 1

\* line |= (1 << x)
BitOr(line, mask) == IF (line \div mask) % 2 = 1 THEN line ELSE line + mask

\* (line >> x) & 1
BitAt(line, x) == (line \div (2 ^ x)) % 2

\* The loop of save_binary at iteration i, x bits gathered in line, out the
\* bytes written so far; yields what the loop leaves.
RECURSIVE save_binary_loop(_, _, _, _, _)
save_binary_loop(g, i, x, line, out) ==
    IF i >= get_height(g) * get_width(g) THEN [x |-> x, line |-> line, out |-> out]
    ELSE LET size == get_width(g) * get_height(g)
             currentBit ==
                 IF i < size /\ get(g, i % get_width(g), i \div get_width(g)) = ALIVE
                 THEN 1 ELSE 0
             line1 == IF currentBit = 1 THEN BitOr(line, 2 ^ x) ELSE line
         IN  IF x + 1 = 8
             THEN save_binary_loop(g, i + 1, 0, 0, Append(out, line1))
             ELSE save_binary_loop(g, i + 1, x + 1, line1, out)

\* Zoo::save_binary: the bytes written to the opened file.
save_binary(g) ==
    LET r == save_binary_loop(g, 0, 0, 0, <<>>)
    IN  Int32Bytes(get_width(g)) \o Int32Bytes(get_height(g)) \o r.out
          \o (IF r.x # 0 THEN <<r.line>> ELSE <<>>)

\* The inner loop of load_binary for the byte line read in round y, from bit
\* x on: yields the grid and whether the loop left through the break.
RECURSIVE load_binary_bits(_, _, _, _, _, _)
load_binary_bits(g, line, width, height, y, x) ==
    IF x >= 8 THEN [grid |-> g, broke |-> FALSE]
    ELSE LET cell == BitAt(line, x)
             index == x + 8 * y
         IN  IF index >= width * height THEN [grid |-> g, broke |-> TRUE]
             ELSE load_binary_bits(
                      set(g, index % width, index \div width,
                          IF cell = 1 THEN ALIVE ELSE DEAD),
                      line, width, height, y, x + 1)

\* The outer loop of load_binary, for (y = 0; y < height; y++): one byte is
\* read per round, at position pos of the file; a failed read throws; the
\* break of the inner loop sets y = height and so ends the outer loop.
RECURSIVE load_binary_loop(_, _, _, _, _, _)
load_binary_loop(g, bytes, width, height, y, pos) ==
    IF y >= height THEN [threw |-> FALSE, grid |-> g]
    ELSE IF pos > Len(bytes) THEN [threw |-> TRUE, grid |-> NoGrid]
    ELSE LET r == load_binary_bits(g, bytes[pos], width, height, y, 0)
         IN  IF r.broke THEN [threw |-> FALSE, grid |-> r.grid]
             ELSE load_binary_loop(r.grid, bytes, width, height, y + 1, pos + 1)

\* Zoo::load_binary on the file f.
load_binary(f) ==
    IF ~f.exists THEN [threw |-> TRUE, grid |-> NoGrid]
    ELSE LET width == ReadInt32(f.data, 1)
             height == ReadInt32(f.data, 5)
         IN  load_binary_loop(Grid(width, height), f.data, width, height, 0, 9)

\* ------------------------------------------------------------ Zoo: ascii
Digits == <<"0", "1", "2", "3", "4", "5", "6", "7", "8", "9">>

IsDigit(c) == \E d \in 1..10 : Digits[d] = c

DigitValue(c) == (CHOOSE d \in 1..10 : Digits[d] = c) - 1

\* saveFile << int: the decimal digits of n.
RECURSIVE to_decimal(_)
to_decimal(n) ==
    IF n < 0 THEN <<"-">> \o to_decimal(-n)
    ELSE IF n < 10 THEN <<Digits[n + 1]>>
    ELSE to_decimal(n \div 10) \o <<Digits[(n % 10) + 1]>>

\* std::stoi on the characters s: an optional minus sign, then the longest run
\* of digits; throws when there is no digit.
RECURSIVE stoi_digits(_, _, _)
stoi_digits(s, i, acc) ==
    IF i > Len(s) \/ ~IsDigit(s[i]) THEN acc
    ELSE stoi_digits(s, i + 1, 10 * acc + DigitValue(s[i]))

stoi(s) ==
    LET neg == Len(s) >= 1 /\ s[1] = "-"
        first == IF neg THEN 2 ELSE 1
    IN  IF first > Len(s) \/ ~IsDigit(s[first]) THEN [threw |-> TRUE, value |-> 0]
        ELSE [threw |-> FALSE,
              value |-> IF neg THEN -stoi_digits(s, first, 0)
                        ELSE stoi_digits(s, first, 0)]

\* operator<<(output_stream, grid): the bordered picture, a newline after
\* each of its H + 2 rows.
print_char(g, x, y) ==
    IF x = -1 \/ x = get_width(g)
    THEN (IF y = -1 \/ y = get_height(g) THEN "+" ELSE "|")
    ELSE IF y = -1 \/ y = get_height(g) THEN "-"
    ELSE IF get(g, x, y) = ALIVE THEN "#" ELSE " "

print_row(g, y) ==
    [i \in 1..(get_width(g) + 2) |-> print_char(g, i - 2, y)] \o <<"\n">>

RECURSIVE print_rows(_, _)
print_rows(g, y) ==
    IF y > get_height(g) THEN <<>> ELSE print_row(g, y) \o print_rows(g, y + 1)

print(g) == print_rows(g, -1)

\* Grid::to_string(): declared in grid.h, its body is not in the sources; it
\* emits the grid as the stream print does, surrounded by the border.
to_string(g) == print(g)

\* Zoo::save_ascii: the characters written to the opened file.
save_ascii(g) ==
    to_decimal(get_width(g)) \o <<" ">> \o to_decimal(get_height(g)) \o <<"\n">>
        \o to_string(g)

\* The position of the first character c of s at or after i, Len(s) + 1 if
\* there is none.
RECURSIVE find_char(_, _, _)
find_char(s, c, i) ==
    IF i > Len(s) \/ s[i] = c THEN i ELSE find_char(s, c, i + 1)

\* std::getline(stream, line, delim) with the stream at position pos: fails
\* when no character is left; otherwise yields the characters before the next
\* delim and the position after it.
getline(s, delim, pos) ==
    IF pos > Len(s) THEN [ok |-> FALSE, line |-> <<>>, pos |-> pos]
    ELSE LET e == find_char(s, delim, pos)
         IN  [ok |-> TRUE, line |-> SubSeq(s, pos, e - 1), pos |-> e + 1]

\* The loop over the characters of one data line: newGrid.set per character,
\* a throw on any character other than '#' and ' '.
RECURSIVE load_ascii_chars(_, _, _, _)
load_ascii_chars(g, line, lineIndex, c) ==
    IF c >= Len(line) THEN [threw |-> FALSE, grid |-> g]
    ELSE LET sym == line[c + 1]
         IN  IF sym = "#"
             THEN load_ascii_chars(set(g, c, lineIndex, ALIVE), line, lineIndex, c + 1)
             ELSE IF sym = " "
             THEN load_ascii_chars(set(g, c, lineIndex, DEAD), line, lineIndex, c + 1)
             ELSE [threw |-> TRUE, grid |-> NoGrid]

\* while (getline(file, line)) { ... lineIndex++; } and the test after it.
RECURSIVE load_ascii_lines(_, _, _, _, _, _)
load_ascii_lines(g, data, width, height, lineIndex, pos) ==
    LET l == getline(data, "\n", pos)
    IN  IF ~l.ok
        THEN (IF lineIndex + 1 < height THEN [threw |-> TRUE, grid |-> NoGrid]
              ELSE [threw |-> FALSE, grid |-> g])
        ELSE IF Len(l.line) > width THEN [threw |-> TRUE, grid |-> NoGrid]
        ELSE LET r == load_ascii_chars(g, l.line, lineIndex, 0)
             IN  IF r.threw THEN r
                 ELSE load_ascii_lines(r.grid, data, width, height, lineIndex + 1, l.pos)

\* Zoo::load_ascii on the file f.
load_ascii(f) ==
    IF ~f.exists THEN [threw |-> TRUE, grid |-> NoGrid]
    ELSE LET top == getline(f.data, "\n", 1)
             t1 == getline(top.line, " ", 1)
             t2 == getline(top.line, " ", t1.pos)
             width == stoi(t1.line)
             height == stoi(t2.line)
         IN  IF width.threw \/ height.threw THEN [threw |-> TRUE, grid |-> NoGrid]
             ELSE IF width.value <= 0 \/ height.value <= 0
             THEN [threw |-> TRUE, grid |-> NoGrid]
             ELSE load_ascii_lines(Grid(width.value, height.value), f.data,
                                   width.value, height.value, 0, top.pos)

\* -------------------------------------------------------- Zoo operations
\* Zoo::save_binary(path, grid): the path is in a directory that exists.
SaveBinary ==
    /\ op = Idle
    /\ bgol' = File(save_binary(grid))
    /\ Record("save_binary", <<>>, FALSE, grid, NoGrid, DEAD, FALSE)
    /\ UNCHANGED <<grid, gol, nodir, worldVars>>

\* Zoo::load_binary(path)
LoadBinary ==
    /\ op = Idle
    /\ LET r == load_binary(bgol)
       IN  Record("load_binary", <<>>, FALSE, NoGrid, r.grid, DEAD, r.threw)
    /\ UNCHANGED <<grid, fileVars, worldVars>>

\* The paths save_ascii is called with: one in a directory that exists and
\* can be written, one in a directory that does not exist.
GolPath == "test_outputs/grid.gol"

NoDirPath == "test_outputs/DOES_NOT_EXIST/grid.gol"

\* std::ofstream saveFile(filePath): the stream opens, creating the file,
\* when the directory of the path exists; it creates no directory.
ofstream_opens(path) == path # NoDirPath

\* A save_ascii that does not test the stream.
save_ascii_unchecked(opened) == FALSE

\* if (!saveFile) throw std::runtime_error("File cannot be opened");
save_ascii_throws(opened) == ~opened

\* Zoo::save_ascii(path, grid): what is written to a stream that did not
\* open goes nowhere.
SaveAscii ==
    /\ op = Idle
    /\ \E path \in {GolPath, NoDirPath} :
        LET opened == ofstream_opens(path)
        IN
          /\ gol' = IF opened /\ ~save_ascii_throws(opened)
                    THEN File(save_ascii(grid)) ELSE gol
          /\ Record("save_ascii", <<path>>, FALSE, grid, NoGrid, DEAD,
                    save_ascii_throws(opened))
    /\ UNCHANGED <<grid, bgol, nodir, worldVars>>

\* Zoo::load_ascii(path)
LoadAscii ==
    /\ op = Idle
    /\ LET r == load_ascii(gol)
       IN  Record("load_ascii", <<>>, FALSE, NoGrid, r.grid, DEAD, r.threw)
    /\ UNCHANGED <<grid, fileVars, worldVars>>

\* The grid handed to the codecs: any grid within the Zoo bounds, each of
\* them built by a constructor and calls of set.
InitZoo ==
    /\ grid \in Grids(ZooW, ZooH, ZooCells)
    /\ op = Idle
    /\ args = <<>>
    /\ flag = FALSE
    /\ other = NoGrid
    /\ pre = NoGrid
    /\ ret = NoGrid
    /\ rcell = DEAD
    /\ threw = FALSE
    /\ bgol = NoFile
    /\ gol = NoFile
    /\ nodir = NoFile
    /\ current_state = NoGrid
    /\ next_state = NoGrid

NextZoo ==
    \/ SaveBinary
    \/ LoadBinary
    \/ SaveAscii
    \/ LoadAscii
    \/ Glider
    \/ RPentomino
    \/ LightWeightSpaceship
    \/ Discard

SpecZoo == InitZoo /\ [][NextZoo]_vars

\* ---------------------------------------------- Zoo: loading text files
\* The lines a text file may hold for a declared width: up to width + 1
\* cell characters.
LinesOfFile(width) == UNION {[1..n -> Cell] : n \in 0..(width + 1)}

\* The characters of the lines ls, a newline after each of them but, when
\* terminated is false, the last.
RECURSIVE file_text(_, _, _)
file_text(ls, terminated, i) ==
    IF i > Len(ls) THEN <<>>
    ELSE ls[i] \o (IF i < Len(ls) \/ terminated THEN <<"\n">> ELSE <<>>)
           \o file_text(ls, terminated, i + 1)

\* The text files at the path handed to load_ascii: a header line "W H" and
\* data lines, as many, as long and as terminated as whoever wrote the file
\* made them.
AsciiFiles ==
    {File(to_decimal(w) \o <<" ">> \o to_decimal(h) \o <<"\n">>
            \o file_text(ls, terminated, 1)) :
        w \in 1..FileW, h \in 1..FileH, terminated \in BOOLEAN,
        ls \in UNION {[1..n -> LinesOfFile(FileW)] : n \in 0..FileLines}}

InitFiles ==
    /\ gol \in AsciiFiles
    /\ grid = NoGrid
    /\ op = Idle
    /\ args = <<>>
    /\ flag = FALSE
    /\ other = NoGrid
    /\ pre = NoGrid
    /\ ret = NoGrid
    /\ rcell = DEAD
    /\ threw = FALSE
    /\ bgol = NoFile
    /\ nodir = NoFile
    /\ current_state = NoGrid
    /\ next_state = NoGrid

NextFiles ==
    \/ LoadAscii
    \/ Discard

SpecFiles == InitFiles /\ [][NextFiles]_vars

\* ------------------------------------------------------------------ World
\* The bodies of the World member functions are not in the sources (world.h
\* declares them); they follow the World section of the specification and
\* use the Grid member functions above.

\* A neighbour test that never wraps: positions outside the grid hold no cell.
neighbour_alive_clamped(g, nx, ny, toroidal) ==
    valid_coordinate(g, nx, ny) /\ get(g, nx, ny) = ALIVE

\* The neighbour position (nx, ny) holds an ALIVE cell: taken modulo the width
\* and height when toroidal, no cell outside the grid otherwise.
neighbour_alive(g, nx, ny, toroidal) ==
    IF toroidal
    THEN get(g, nx % get_width(g), ny % get_height(g)) = ALIVE
    ELSE valid_coordinate(g, nx, ny) /\ get(g, nx, ny) = ALIVE

\* World::count_neighbours(x, y, toroidal): the ALIVE cells among the eight
\* positions (x + dx, y + dy), offsets k = 0..8 of the 3x3 block without its
\* centre.
RECURSIVE count_neighbours_loop(_, _, _, _, _)
count_neighbours_loop(g, x, y, toroidal, k) ==
    IF k >= 9 THEN 0
    ELSE LET dx == (k % 3) - 1
             dy == (k \div 3) - 1
         IN  (IF (dx # 0 \/ dy # 0) /\ neighbour_alive(g, x + dx, y + dy, toroidal)
              THEN 1 ELSE 0)
             + count_neighbours_loop(g, x, y, toroidal, k + 1)

count_neighbours(g, x, y, toroidal) == count_neighbours_loop(g, x, y, toroidal, 0)

\* A rule that forgets survival with two neighbours.
rule_three_only(c, n) == IF n = 3 THEN ALIVE ELSE DEAD

\* The rule: ALIVE if (c = ALIVE and n is 2 or 3) or (c = DEAD and n = 3).
rule(c, n) ==
    IF (c = ALIVE /\ (n = 2 \/ n = 3)) \/ (c = DEAD /\ n = 3) THEN ALIVE ELSE DEAD

\* The loops of step over the cells of the current buffer, k-th iteration:
\* the new cell is written into the next buffer with Grid::set.
RECURSIVE step_loop(_, _, _, _)
step_loop(current, next, toroidal, k) ==
    IF k >= get_total_cells(current) THEN next
    ELSE LET x == k % get_width(current)
             y == k \div get_width(current)
         IN  step_loop(current,
                       set(next, x, y,
                           rule(get(current, x, y),
                                count_neighbours(current, x, y, toroidal))),
                       toroidal, k + 1)

\* World::step(toroidal), first half: the next buffer once the generation has
\* been computed into it.
step_written(w, toroidal) == step_loop(w.current, w.next, toroidal, 0)

\* A step that computes the generation but does not swap the buffers.
step_no_swap(w, toroidal) ==
    [current |-> w.current, next |-> step_written(w, toroidal)]

\* World::step(toroidal): one generation is computed into the next buffer,
\* then the two buffers are swapped.
step(w, toroidal) ==
    [current |-> step_written(w, toroidal), next |-> w.current]

\* World::advance(steps, toroidal): step, steps times; nothing for steps <= 0.
RECURSIVE advance(_, _, _)
advance(w, steps, toroidal) ==
    IF steps <= 0 THEN w ELSE advance(step(w, toroidal), steps - 1, toroidal)

\* World::World(width, height): both buffers dead.
World(width, height) == [current |-> Grid(width, height), next |-> Grid(width, height)]

\* World::World(grid): the grid is copied into the current buffer, the next
\* buffer is dead and of the same shape.
WorldOfGrid(g) == [current |-> g, next |-> Grid(get_width(g), get_height(g))]

\* World::resize(new_width, new_height): the current buffer is resized as by
\* Grid::resize, the next buffer is reset to all DEAD at the new shape.
world_resize(w, new_width, new_height) ==
    [current |-> resize(w.current, new_width, new_height),
     next |-> Grid(new_width, new_height)]

\* World::get_state(): the current buffer.
get_state == current_state

world == [current |-> current_state, next |-> next_state]

\* A call of a World member function that leaves the World as nw; written is
\* the buffer the call wrote last.
WorldCall(name, a, f, o, p, written, nw) ==
    /\ current_state' = nw.current
    /\ next_state' = nw.next
    /\ op' = name
    /\ args' = a
    /\ flag' = f
    /\ other' = o
    /\ pre' = p
    /\ ret' = written
    /\ rcell' = DEAD
    /\ threw' = FALSE
    /\ UNCHANGED <<grid, fileVars>>

WorldSquares == {n \in 0..WorldW : <<n, n>> \in Shapes(WorldW, WorldH, WorldCells)}

\* world.resize(square_size)
WorldResizeSquare ==
    /\ op = Idle
    /\ \E square_size \in WorldSquares :
          WorldCall("resize(n)", <<square_size>>, FALSE, NoGrid, current_state, NoGrid,
                    world_resize(world, square_size, square_size))

\* world.resize(new_width, new_height)
WorldResize ==
    /\ op = Idle
    /\ \E s \in Shapes(WorldW, WorldH, WorldCells) :
          WorldCall("resize", <<s[1], s[2]>>, FALSE, NoGrid, current_state, NoGrid,
                    world_resize(world, s[1], s[2]))

\* world.step(toroidal)
Step ==
    /\ op = Idle
    /\ \E toroidal \in BOOLEAN :
          WorldCall("step", <<>>, toroidal, NoGrid, current_state,
                    step_written(world, toroidal), step(world, toroidal))

\* world.advance(steps, toroidal)
Advance ==
    /\ op = Idle
    /\ \E steps \in -1..MaxSteps, toroidal \in BOOLEAN :
          WorldCall("advance", <<steps>>, toroidal, NoGrid, current_state,
                    IF steps <= 0 THEN NoGrid
                    ELSE step_written(advance(world, steps - 1, toroidal), toroidal),
                    advance(world, steps, toroidal))

\* The World as one of its constructors leaves it: World(), World(n),
\* World(w, h) or World(grid).
Constructed(w) ==
    /\ current_state = w.current
    /\ next_state = w.next

InitWorld ==
    /\ \/ Constructed(World(0, 0))
       \/ \E square_size \in WorldSquares : Constructed(World(square_size, square_size))
       \/ \E s \in Shapes(WorldW, WorldH, WorldCells) : Constructed(World(s[1], s[2]))
       \/ \E g \in Grids(WorldW, WorldH, WorldCells) : Constructed(WorldOfGrid(g))
    /\ grid = NoGrid
    /\ op = Idle
    /\ args = <<>>
    /\ flag = FALSE
    /\ other = NoGrid
    /\ pre = NoGrid
    /\ ret = NoGrid
    /\ rcell = DEAD
    /\ threw = FALSE
    /\ bgol = NoFile
    /\ gol = NoFile
    /\ nodir = NoFile

NextWorld ==
    \/ WorldResizeSquare
    \/ WorldResize
    \/ Step
    \/ Advance
    \/ Discard

SpecWorld == InitWorld /\ [][NextWorld]_vars

\* ================================================================== claims
\* The cell of g at column x, row y: row-major storage, offset x + W * y.
CellAt(g, x, y) == g.cells[x + g.width * y + 1]

Coords(g) == (0..(g.width - 1)) \X (0..(g.height - 1))

InBounds(g, x, y) == 0 <= x /\ x < g.width /\ 0 <= y /\ y < g.height

\* The placement of o at (x0, y0) lies within g.
Fits(g, o, x0, y0) ==
    x0 >= 0 /\ y0 >= 0 /\ x0 + o.width <= g.width /\ y0 + o.height <= g.height

\* (x, y) is under the footprint of o placed at (x0, y0).
Under(o, x0, y0, x, y) ==
    x0 <= x /\ x < x0 + o.width /\ y0 <= y /\ y < y0 + o.height

SameShape(g, h) == g.width = h.width /\ g.height = h.height

\* C1: get, set and operator() called with a coordinate outside
\* 0 <= x < W, 0 <= y < H raise the error to the caller.
C1_OutOfBoundsRaised ==
    (op \in {"get", "set", "read()", "write()"} /\ ~InBounds(pre, args[1], args[2]))
        => threw

\* C2: merge succeeds exactly for the placements that lie within the
\* receiver, those reaching the right or bottom edge and zero-area grids
\* included, and fails for every other placement.
C2_MergeSucceedsIffFits ==
    op = "merge" => (threw <=> ~Fits(pre, other, args[1], args[2]))

\* C8: for the Grid object after every operation and for every grid an
\* operation returned, total = width * height = alive + dead; a freshly
\* constructed grid has no ALIVE cell.
C8_CountsAgree ==
    /\ \A g \in {grid, ret} :
          /\ get_total_cells(g) = get_width(g) * get_height(g)
          /\ get_total_cells(g) = get_alive_cells(g) + get_dead_cells(g)
    /\ op \in {"Grid()", "Grid(n)", "Grid(w,h)"} => get_alive_cells(grid) = 0

\* C8 witness: a merge has changed the Grid object and left it with ALIVE and
\* DEAD cells.
C8_Witness ==
    /\ op = "merge"
    /\ ~threw
    /\ grid # pre
    /\ get_alive_cells(grid) >= 2
    /\ get_dead_cells(grid) >= 2

\* C9: after a successful merge with alive_only = true every cell that was
\* ALIVE is ALIVE, every cell under an ALIVE cell of other is ALIVE, and every
\* other cell has its prior value.
C9_MergeAliveOnlyAddsLife ==
    (op = "merge" /\ ~threw /\ flag) =>
        /\ SameShape(grid, pre)
        /\ \A c \in Coords(pre) :
              LET x == c[1]
                  y == c[2]
                  x0 == args[1]
                  y0 == args[2]
              IN  CellAt(grid, x, y) =
                     IF Under(other, x0, y0, x, y)
                          /\ CellAt(other, x - x0, y - y0) = ALIVE
                     THEN ALIVE
                     ELSE CellAt(pre, x, y)

\* C9 witness: a successful alive_only merge whose footprint covers an ALIVE
\* cell under a DEAD cell of other and a DEAD cell under an ALIVE cell of other.
C9_Witness ==
    /\ op = "merge"
    /\ ~threw
    /\ flag
    /\ \E c \in Coords(other) :
          /\ CellAt(other, c[1], c[2]) = DEAD
          /\ CellAt(pre, args[1] + c[1], args[2] + c[2]) = ALIVE
    /\ \E c \in Coords(other) :
          /\ CellAt(other, c[1], c[2]) = ALIVE
          /\ CellAt(pre, args[1] + c[1], args[2] + c[2]) = DEAD

\* C10: after a successful merge with alive_only = false every cell under the
\* footprint equals other's cell, every cell outside it is unchanged, and the
\* width and height are unchanged.
C10_MergeOverwritesFootprint ==
    (op = "merge" /\ ~threw /\ ~flag) =>
        /\ SameShape(grid, pre)
        /\ \A c \in Coords(pre) :
              LET x == c[1]
                  y == c[2]
                  x0 == args[1]
                  y0 == args[2]
              IN  CellAt(grid, x, y) =
                     IF Under(other, x0, y0, x, y)
                     THEN CellAt(other, x - x0, y - y0)
                     ELSE CellAt(pre, x, y)

\* C10 witness: a successful overwriting merge that turns an ALIVE cell DEAD
\* and a DEAD cell ALIVE, with an ALIVE cell outside the footprint.
C10_Witness ==
    /\ op = "merge"
    /\ ~threw
    /\ ~flag
    /\ \E c \in Coords(other) :
          /\ CellAt(other, c[1], c[2]) = DEAD
          /\ CellAt(pre, args[1] + c[1], args[2] + c[2]) = ALIVE
    /\ \E c \in Coords(other) :
          /\ CellAt(other, c[1], c[2]) = ALIVE
          /\ CellAt(pre, args[1] + c[1], args[2] + c[2]) = DEAD
    /\ \E c \in Coords(pre) :
          /\ ~Under(other, args[1], args[2], c[1], c[2])
          /\ CellAt(pre, c[1], c[2]) = ALIVE

\* g and h have the same width, height and cell at every coordinate.
SameGrid(g, h) ==
    /\ SameShape(g, h)
    /\ \A c \in Coords(g) : CellAt(g, c[1], c[2]) = CellAt(h, c[1], c[2])

\* C3: load_binary of the file save_binary wrote for a grid succeeds and
\* returns a grid with the same width, height and cells, whatever the shape.
C3_BinaryRoundTrip ==
    (op = "load_binary" /\ bgol = File(save_binary(grid)))
        => (~threw /\ SameGrid(ret, grid))

\* Row y of g in the ascii format: its W characters and a newline.
AsciiRow(g, y) == [i \in 1..g.width |-> CellAt(g, i - 1, y)] \o <<"\n">>

RECURSIVE AsciiRows(_, _)
AsciiRows(g, y) == IF y >= g.height THEN <<>> ELSE AsciiRow(g, y) \o AsciiRows(g, y + 1)

\* The ascii format of g: the header line "W H", then H lines of W characters.
AsciiFormat(g) ==
    to_decimal(g.width) \o <<" ">> \o to_decimal(g.height) \o <<"\n">> \o AsciiRows(g, 0)

\* C4: for a grid with W >= 1 and H >= 1 save_ascii writes the header line
\* "W H" and H lines of W characters, each space or hash, and load_ascii of
\* that file succeeds and returns a grid with the same width, height and cells.
C4_AsciiRoundTrip ==
    (grid.width >= 1 /\ grid.height >= 1) =>
        /\ (op = "save_ascii" /\ ~threw) => gol = File(AsciiFormat(grid))
        /\ (op = "load_ascii" /\ gol = File(save_ascii(grid)))
              => (~threw /\ SameGrid(ret, grid))

\* The eight offsets of a neighbourhood.
Offsets == {d \in (-1..1) \X (-1..1) : d # <<0, 0>>}

\* The position (x, y) holds an ALIVE cell of g: outside the grid it holds
\* none when toroidal is false and is taken modulo W and H when it is true.
AliveAt(g, x, y, toroidal) ==
    IF toroidal THEN CellAt(g, x % g.width, y % g.height) = ALIVE
    ELSE InBounds(g, x, y) /\ CellAt(g, x, y) = ALIVE

\* n: the offsets of (x, y) that hold an ALIVE cell.
LiveNeighbours(g, x, y, toroidal) ==
    Cardinality({d \in Offsets : AliveAt(g, x + d[1], y + d[2], toroidal)})

\* The cell of the next generation at (x, y).
NextCell(g, x, y, toroidal) ==
    LET n == LiveNeighbours(g, x, y, toroidal)
        c == CellAt(g, x, y)
    IN  IF (c = ALIVE /\ n \in {2, 3}) \/ (c = DEAD /\ n = 3) THEN ALIVE ELSE DEAD

\* C5: after step(toroidal) the visible state has the shape of the pre-step
\* state and each of its cells is the rule applied to the pre-step cell and
\* its pre-step neighbour count.
C5_StepAppliesRule ==
    op = "step" =>
        /\ SameShape(get_state, pre)
        /\ \A c \in Coords(pre) :
              CellAt(get_state, c[1], c[2]) = NextCell(pre, c[1], c[2], flag)

\* C5 witness: a toroidal step in which a cell is born, a cell dies, a cell
\* survives, and the wrap-around decides a cell.
C5_Witness ==
    /\ op = "step"
    /\ flag
    /\ \E c \in Coords(pre) :
          CellAt(pre, c[1], c[2]) = DEAD /\ CellAt(get_state, c[1], c[2]) = ALIVE
    /\ \E c \in Coords(pre) :
          CellAt(pre, c[1], c[2]) = ALIVE /\ CellAt(get_state, c[1], c[2]) = DEAD
    /\ \E c \in Coords(pre) :
          CellAt(pre, c[1], c[2]) = ALIVE /\ CellAt(get_state, c[1], c[2]) = ALIVE
    /\ \E c \in Coords(pre) :
          NextCell(pre, c[1], c[2], TRUE) # NextCell(pre, c[1], c[2], FALSE)

\* The coordinates of the ALIVE cells of g.
AliveSet(g) == {c \in Coords(g) : CellAt(g, c[1], c[2]) = ALIVE}

\* The 3x3 grid whose ALIVE cells are (0,0), (0,1), (0,2).
Column3 ==
    [width |-> 3, height |-> 3,
     cells |-> <<ALIVE, DEAD, DEAD, ALIVE, DEAD, DEAD, ALIVE, DEAD, DEAD>>]

\* C6 as stated: one toroidal step of the 3x3 column leaves exactly
\* (0,1), (1,1), (2,1) ALIVE.
C6_ToroidalColumnBecomesRow ==
    (op = "step" /\ flag /\ pre = Column3)
        => AliveSet(get_state) = {<<0, 1>>, <<1, 1>>, <<2, 1>>}

\* C6 amended: one toroidal step of the 3x3 column leaves all nine cells
\* ALIVE (on a 3x3 torus the eight neighbours of a cell are the eight other
\* cells, so an ALIVE cell counts 2 and a DEAD cell counts 3).
C6_ToroidalColumnFillsGrid ==
    (op = "step" /\ flag /\ pre = Column3)
        => (SameShape(get_state, Column3) /\ AliveSet(get_state) = Coords(Column3))

\* C6 witness: the toroidal step of the 3x3 column has been taken.
C6_Witness == op = "step" /\ flag /\ pre = Column3 /\ get_state # pre

\* C7: the two buffers always have the same width and height, and after a
\* step (and after an advance of at least one step) get_state is the buffer
\* that the step wrote.
C7_BuffersAgree ==
    /\ SameShape(current_state, next_state)
    /\ op = "step" => get_state = ret
    /\ (op = "advance" /\ args[1] >= 1) => get_state = ret

\* C7 witness: a step on a world that was resized to another shape has
\* produced a generation that differs from the pre-step grid.
C7_Witness ==
    /\ op = "step"
    /\ get_state # pre
    /\ next_state = pre
    /\ get_state.width # get_state.height
    /\ AliveSet(get_state) # {}

\* C11: resize(w', h') leaves the grid with width w' and height h'; every cell
\* inside the old grid keeps the value it had, every other cell is DEAD.
C11_ResizeKeepsOverlap ==
    op \in {"resize", "resize(n)"} =>
        LET w == args[1]
            h == IF op = "resize" THEN args[2] ELSE args[1]
        IN  /\ ~threw
            /\ grid.width = w
            /\ grid.height = h
            /\ Len(grid.cells) = w * h
            /\ \A c \in Coords(grid) :
                  CellAt(grid, c[1], c[2]) =
                      IF c[1] < pre.width /\ c[2] < pre.height
                      THEN CellAt(pre, c[1], c[2]) ELSE DEAD

\* C11 witness: a resize that shrinks the width and grows the height has kept
\* an ALIVE cell of the overlap, dropped an ALIVE cell outside it and added
\* DEAD cells.
C11_Witness ==
    /\ op = "resize"
    /\ grid.width < pre.width
    /\ grid.height > pre.height
    /\ \E c \in Coords(grid) : c[2] < pre.height /\ CellAt(grid, c[1], c[2]) = ALIVE
    /\ get_alive_cells(grid) < get_alive_cells(pre)

\* The window (x0, y0, x1, y1) lies in g: 0 <= x0 <= x1 <= W, 0 <= y0 <= y1 <= H.
ValidWindow(g, x0, y0, x1, y1) ==
    /\ 0 <= x0 /\ x0 <= x1 /\ x1 <= g.width
    /\ 0 <= y0 /\ y0 <= y1 /\ y1 <= g.height

\* C12: crop(x0, y0, x1, y1) succeeds exactly when the window lies in the
\* grid, zero-area windows included, and then returns the grid of shape
\* (x1 - x0) x (y1 - y0) whose cell (i, j) is the cell (x0 + i, y0 + j) of the
\* receiver; every other window throws.
C12_CropSucceedsIffWindowValid ==
    op = "crop" =>
        LET x0 == args[1]
            y0 == args[2]
            x1 == args[3]
            y1 == args[4]
            valid == ValidWindow(pre, x0, y0, x1, y1)
        IN  /\ threw <=> ~valid
            /\ valid =>
                  /\ ret.width = x1 - x0
                  /\ ret.height = y1 - y0
                  /\ Len(ret.cells) = (x1 - x0) * (y1 - y0)
                  /\ \A c \in Coords(ret) :
                        CellAt(ret, c[1], c[2]) = CellAt(pre, x0 + c[1], y0 + c[2])
                  /\ (x0 = 0 /\ y0 = 0 /\ x1 = pre.width /\ y1 = pre.height)
                        => ret = pre

\* The source coordinate of destination (x, y) under a normalised rotation r
\* of a W x H grid.
RotationSource(r, W, H, x, y) ==
    CASE r = 0 -> <<x, y>>
      [] r = 1 -> <<y, H - 1 - x>>
      [] r = 2 -> <<W - 1 - x, H - 1 - y>>
      [] r = 3 -> <<W - 1 - y, x>>

\* C13: rotate(k) is rotate(r) for r = ((k mod 4) + 4) mod 4, negative k
\* included: its shape is W x H for r in {0, 2} and H x W for r in {1, 3}, its
\* cell (x, y) is the source cell of r, so rotate(4) is the grid and
\* rotate(k).rotate(-k) is the grid.
C13_RotateNormalised ==
    op = "rotate" =>
        LET k == args[1]
            r == ((k % 4) + 4) % 4
            W == grid.width
            H == grid.height
        IN  /\ ~threw
            /\ ret = rotate(grid, r)
            /\ ret.width = (IF r \in {0, 2} THEN W ELSE H)
            /\ ret.height = (IF r \in {0, 2} THEN H ELSE W)
            /\ Len(ret.cells) = W * H
            /\ \A c \in Coords(ret) :
                  LET s == RotationSource(r, W, H, c[1], c[2])
                  IN  InBounds(grid, s[1], s[2])
                      /\ CellAt(ret, c[1], c[2]) = CellAt(grid, s[1], s[2])
            /\ k = 4 => ret = grid
            /\ rotate(ret, -k) = grid

\* C13 witness: a negative odd rotation of a non-square grid with ALIVE and
\* DEAD cells has returned a grid of the transposed shape.
C13_Witness ==
    /\ op = "rotate"
    /\ args[1] \in {-1, -5}
    /\ grid.width > grid.height
    /\ grid.height >= 2
    /\ get_alive_cells(grid) >= 1
    /\ get_dead_cells(grid) >= 1
    /\ ret.width = grid.height
    /\ ret.height = grid.width
    /\ ret.cells # grid.cells

\* The lines of the text s from position pos on, as a reader that splits at
\* newlines sees them: each is [chars, complete], complete when a newline
\* ends it.
RECURSIVE TextLines(_, _, _)
TextLines(s, pos, cur) ==
    IF pos > Len(s)
    THEN (IF cur = <<>> THEN <<>> ELSE <<[chars |-> cur, complete |-> FALSE]>>)
    ELSE IF s[pos] = "\n"
    THEN <<[chars |-> cur, complete |-> TRUE]>> \o TextLines(s, pos + 1, <<>>)
    ELSE TextLines(s, pos + 1, Append(cur, s[pos]))

\* The width and height a header line "W H" of one digit each declares, and
\* the lines after it.
HeaderW(f) == DigitValue(f.data[1])

HeaderH(f) == DigitValue(f.data[3])

DataLines(f) == TextLines(f.data, 5, <<>>)

\* C14: load_ascii throws whenever one of the H data lines of the file has a
\* length other than W, shorter as well as longer.
C14_LineLengthRejected ==
    (/\ op = "load_ascii"
     /\ \E i \in 1..HeaderH(gol) :
           i <= Len(DataLines(gol)) /\ Len(DataLines(gol)[i].chars) # HeaderW(gol))
        => threw

\* The number of data lines of f that a newline ends.
CompleteLines(f) ==
    Cardinality({i \in 1..Len(DataLines(f)) : DataLines(f)[i].complete})

\* C15: load_ascii throws whenever the file holds fewer than H complete data
\* lines after its header, H - 1 lines and no line at all included; it returns
\* no grid then.
C15_MissingLinesRejected ==
    (op = "load_ascii" /\ CompleteLines(gol) < HeaderH(gol)) => threw

\* The file at a path.
FileAt(path) == IF path = NoDirPath THEN nodir ELSE gol

\* C16: save_ascii throws and leaves no file at the path when the path cannot
\* be opened for writing; for a path in a writable directory it does not
\* throw and a file exists at the path afterwards.
C16_SaveAsciiReportsOpenFailure ==
    op = "save_ascii" =>
        IF ofstream_opens(args[1])
        THEN ~threw /\ FileAt(args[1]).exists
        ELSE threw /\ ~FileAt(args[1]).exists

\* C16 witness: a save to the path in the missing directory has thrown, after
\* an earlier save of the same grid to the writable path left its file.
C16_Witness ==
    /\ op = "save_ascii"
    /\ args[1] = NoDirPath
    /\ threw
    /\ gol = File(save_ascii(grid))
    /\ get_alive_cells(grid) >= 1

\* The integer that the four bytes of data from position pos on hold, least
\* significant byte first.
LittleEndian(data, pos) ==
    data[pos] + 256 * data[pos + 1] + 65536 * data[pos + 2] + 16777216 * data[pos + 3]

\* Bit i of the byte b, counted from the least significant bit.
Bit(b, i) == (b \div (2 ^ i)) % 2

\* C17: save_binary writes 8 + ceil(W*H/8) bytes: W and H as 4-byte integers,
\* then cell number c = x + W*y as bit c mod 8 of data byte c div 8, 1 for
\* ALIVE and 0 for DEAD, the unused high bits of the last byte being 0.
C17_BinaryFormat ==
    op = "save_binary" =>
        LET W == grid.width
            H == grid.height
            data == bgol.data
        IN  /\ ~threw
            /\ bgol.exists
            /\ Len(data) = 8 + ((W * H + 7) \div 8)
            /\ \A i \in 1..Len(data) : data[i] \in 0..255
            /\ LittleEndian(data, 1) = W
            /\ LittleEndian(data, 5) = H
            /\ \A c \in Coords(grid) :
                  LET n == c[1] + W * c[2]
                  IN  Bit(data[9 + (n \div 8)], n % 8) =
                          (IF CellAt(grid, c[1], c[2]) = ALIVE THEN 1 ELSE 0)
            /\ \A n \in (W * H)..(8 * ((W * H + 7) \div 8) - 1) :
                  Bit(data[9 + (n \div 8)], n % 8) = 0

\* C17 witness: a grid of nine cells has been saved into two data bytes, bits
\* set in both of them and the last one partly unused.
C17_Witness ==
    /\ op = "save_binary"
    /\ grid.width = 3
    /\ grid.height = 3
    /\ Len(bgol.data) = 10
    /\ bgol.data[9] \notin {0, 255}
    /\ bgol.data[10] = 1

\* C18: a constructor or a resize given a negative width or height throws,
\* and no grid ever has a negative width or height.
C18_NegativeDimensionsRejected ==
    /\ grid.width >= 0
    /\ grid.height >= 0
    /\ (op \in {"Grid(n)", "Grid(w,h)", "resize(n)", "resize"}
           /\ \E i \in 1..Len(args) : args[i] < 0)
          => (threw /\ grid = pre)

\* C19: a set outside the grid, a merge whose placement is rejected and a crop
\* whose window is rejected leave the width, the height and every cell of the
\* receiver as they were before the call.
C19_RejectedCallsChangeNothing ==
    /\ (op = "set" /\ ~InBounds(pre, args[1], args[2])) => grid = pre
    /\ (op = "merge" /\ (threw \/ ~Fits(pre, other, args[1], args[2]))) => grid = pre
    /\ (op = "crop" /\ threw) => grid = pre

\* C19 witness: a merge was rejected whose first cell lies in the receiver and
\* would have changed it, the placement reaching past an edge.
C19_Witness ==
    /\ op = "merge"
    /\ threw
    /\ InBounds(pre, args[1], args[2])
    /\ ~Fits(pre, other, args[1], args[2])
    /\ get_total_cells(other) >= 2
    /\ CellAt(other, 0, 0) = ALIVE
    /\ CellAt(pre, args[1], args[2]) = DEAD
    /\ grid = pre

====
